---- MODULE Spec2Model ----
(***************************************************************************)
(* Model of feedback_aggregator.py: a folder of JSON feedback files is     *)
(* classified into two buckets, each bucket is sorted by submission time   *)
(* and written as one CSV report whose columns are resolved from the       *)
(* record by get_value_for_output_field_from_feedback.                     *)
(*                                                                         *)
(* Python values are modelled as follows.                                  *)
(*   str         [type |-> "str", s |-> <<characters>>]                    *)
(*   None        [type |-> "NoneType", s |-> <<>>]                         *)
(*   dict        a function whose domain is the set of keys                *)
(*   exception   [raised |-> "KeyError" | "ValueError", ...]               *)
(***************************************************************************)
EXTENDS Integers, Sequences, FiniteSets, TLC

\* ------------------------------------------------------------------ bounds
\* Longest text value drawn for a field of a record.
MaxLen == 3
\* Largest number of entries of the source folder before the first run.
MaxFiles == 2

\* --------------------------------------------------------- program constants
BUSINESS_SURVEY_KEY == "business"
NON_BUSINESS_SURVEY_KEY == "non-business"

\* The keys of FEEDBACK_BY_SURVEY_TYPE in insertion order (dict.items()).
SurveyTypes == <<BUSINESS_SURVEY_KEY, NON_BUSINESS_SURVEY_KEY>>

\* ------------------------------------------------------------ Python values
None == [type |-> "NoneType", s |-> <<>>]
Str(chars) == [type |-> "str", s |-> chars]

\* bool(v): None and the empty string are falsy.
Truthy(v) == v.type = "str" /\ v.s # <<>>

\* a or b
Or(a, b) == IF Truthy(a) THEN a ELSE b

\* dict.get(key)
Get(d, key) == IF key \in DOMAIN d THEN d[key] ELSE None

\* str.replace(old, new) for a one-character old.
RECURSIVE Replace(_, _, _)
Replace(chars, old, new) ==
    IF chars = <<>> THEN <<>>
    ELSE (IF Head(chars) = old THEN new ELSE <<Head(chars)>>)
         \o Replace(Tail(chars), old, new)

\* The characters str.strip() removes (those of the model's alphabet).
Whitespace == {" ", "\t", "\n", "\r"}

RECURSIVE LStrip(_)
LStrip(chars) ==
    IF chars # <<>> /\ Head(chars) \in Whitespace THEN LStrip(Tail(chars))
    ELSE chars

RECURSIVE RStrip(_)
RStrip(chars) ==
    IF chars # <<>> /\ chars[Len(chars)] \in Whitespace
    THEN RStrip(SubSeq(chars, 1, Len(chars) - 1))
    ELSE chars

\* str.strip()
Strip(chars) == RStrip(LStrip(chars))

\* str.lower() on the model's alphabet; a multi-letter element stands for
\* that run of characters of a file name.
LowerChar(c) ==
    CASE c = "A" -> "a"
      [] c = "G" -> "g"
      [] c = "X" -> "x"
      [] c = "Business" -> "business"
      [] c = "Non" -> "non"
      [] c = "Surveys" -> "surveys"
      [] OTHER -> c

Lower(chars) == [i \in 1..Len(chars) |-> LowerChar(chars[i])]

\* needle in haystack (substring test on str).
Contains(haystack, needle) ==
    \E i \in 0..(Len(haystack) - Len(needle)) :
        SubSeq(haystack, i + 1, i + Len(needle)) = needle

\* ------------------------------------------------------------- OutputField
\* name is a str or a list of str; default_value defaults to "".
NameStr(n) == [kind |-> "str", str |-> n, list |-> <<>>]
NameList(l) == [kind |-> "list", str |-> "", list |-> l]
OutputField(name, default_value) == [name |-> name, default_value |-> default_value]

\* --------------------- get_value_for_output_field_from_feedback, lines 102-141
Returned(v) == [raised |-> "", value |-> v]
Raised(ex) == [raised |-> ex, value |-> None]

\* line 113
IsSentinel(key) == key = "EMPTY_COLUMN"

LookUp_DataFirst(key, feedback) ==
    IF key \in DOMAIN feedback["data"]
    THEN Get(feedback["data"], key)
    ELSE IF key \in DOMAIN feedback["survey_metadata"]
         THEN Get(feedback["survey_metadata"], key)
         ELSE Get(feedback, key)

\* lines 116-121: the first of survey_metadata, data, feedback that HAS the
\* key supplies the value, whatever that value is.
LookUp(key, feedback) ==
    IF key \in DOMAIN feedback["survey_metadata"]
    THEN Get(feedback["survey_metadata"], key)
    ELSE IF key \in DOMAIN feedback["data"]
         THEN Get(feedback["data"], key)
         ELSE Get(feedback, key)

Sanitise_QuotesNotDoubled(value) ==
    Str(<<"\"">>
        \o Strip(Replace(Replace(value.s, "\n", <<" ">>), "\r", <<" ">>))
        \o <<"\"">>)

\* lines 125-132
Sanitise(value) ==
    Str(<<"\"">>
        \o Strip(Replace(Replace(Replace(value.s, "\n", <<" ">>),
                                 "\r", <<" ">>),
                         "\"", <<"\"", "\"">>))
        \o <<"\"">>)

\* lines 123-134: the value a truthy look-up leaves in `value` at the break.
WonValue(key, value) ==
    IF key = "feedback_text" THEN Sanitise(value) ELSE value

\* lines 112-134: the for loop from position i on.  done = TRUE is the
\* `return ""` of line 114; otherwise value is `value` after the loop.
RECURSIVE ForKeys(_, _, _, _)
ForKeys(keys, i, value, feedback) ==
    IF i > Len(keys) THEN [done |-> FALSE, value |-> value]
    ELSE IF IsSentinel(keys[i]) THEN [done |-> TRUE, value |-> Str(<<>>)]
    ELSE LET v == LookUp(keys[i], feedback)
         IN  IF Truthy(v)
             THEN [done |-> FALSE, value |-> WonValue(keys[i], v)]
             ELSE ForKeys(keys, i + 1, v, feedback)

\* line 136
MissingField(value, output_field) ==
    ~Truthy(value) /\ ~Truthy(Str(output_field.default_value))

\* line 141
ReturnValue(value, output_field) ==
    Or(Or(value, Str(output_field.default_value)),
       Str(<<"No value provided">>))

get_value_for_output_field_from_feedback(feedback, output_field) ==
    IF "survey_metadata" \notin DOMAIN feedback \/ "data" \notin DOMAIN feedback
    THEN Raised("KeyError")
    ELSE LET keys == IF output_field.name.kind = "str"
                     THEN <<output_field.name.str>>
                     ELSE output_field.name.list
             loop == ForKeys(keys, 1, None, feedback)
         IN  IF loop.done THEN Returned(loop.value)
             ELSE IF MissingField(loop.value, output_field)
                  THEN Raised("KeyError")
                  ELSE Returned(ReturnValue(loop.value, output_field))

\* ---------------------------------------------------------------- datetime
\* An ISO-8601 text is <<date, "T", time>>; a datetime is [day, hour].
DayOf(date) ==
    CASE date = "2024-01-02" -> 2
      [] date = "2024-01-05" -> 5

HourOf(time) ==
    CASE time = "09:00:00" -> 9
      [] time = "10:00:00" -> 10

\* datetime.fromisoformat
fromisoformat(text) == [day |-> DayOf(text.s[1]), hour |-> HourOf(text.s[3])]

\* datetime.__lt__
Earlier(a, b) == a.day < b.day \/ (a.day = b.day /\ a.hour < b.hour)

\* strftime("%Y-%m-%d")
strftime_Y_m_d(dt) ==
    CASE dt.day = 2 -> "2024-01-02"
      [] dt.day = 5 -> "2024-01-05"

\* strftime("%b %d %Y")
strftime_b_d_Y(dt) ==
    CASE dt.day = 2 -> "Jan 02 2024"
      [] dt.day = 5 -> "Jan 05 2024"

\* line 200: the sort key of a (filename, data) pair.
SortKey(x) == fromisoformat(x[2]["submitted_at"])

\* sorted(feedback_data, key=...): stable, ascending.
RECURSIVE InsertSorted(_, _)
InsertSorted(x, sortedSeq) ==
    IF sortedSeq = <<>> THEN <<x>>
    ELSE IF Earlier(SortKey(x), SortKey(Head(sortedSeq)))
         THEN <<x>> \o sortedSeq
         ELSE <<Head(sortedSeq)>> \o InsertSorted(x, Tail(sortedSeq))

RECURSIVE SortedFrom(_, _)
SortedFrom(feedback_data, n) ==
    IF n = 0 THEN <<>>
    ELSE InsertSorted(feedback_data[n], SortedFrom(feedback_data, n - 1))

sorted_BucketOrder(feedback_data) == feedback_data

sorted(feedback_data) == SortedFrom(feedback_data, Len(feedback_data))

\* --------------------------------------------------------------- file system
\* An entry of the source folder.  json tells whether json.load accepts the
\* content, data is the parsed document, lines is the text of a report.
JsonFile(name, data) == [name |-> name, json |-> TRUE, data |-> data, lines |-> <<>>]
TextFile(name, lines) == [name |-> name, json |-> FALSE, data |-> None, lines |-> lines]

Iso(date, time) == Str(<<date, "T", time>>)

\* The files a source folder is drawn from.
Catalogue ==
    << \* business, complete
       JsonFile(<<"b", "1">>,
                [survey_metadata |-> [ru_ref |-> Str(<<"r">>)],
                 data |-> [feedback_text |-> Str(<<"a", "\"">>),
                           period_id |-> Str(<<"p">>)],
                 submitted_at |-> Iso("2024-01-05", "10:00:00")]),
       \* business, earlier, period_id present but empty in data
       JsonFile(<<"b", "2">>,
                [survey_metadata |-> [ru_ref |-> Str(<<"r">>)],
                 data |-> [feedback_text |-> Str(<<"c">>),
                           period_id |-> Str(<<>>)],
                 period_id |-> Str(<<"t">>),
                 submitted_at |-> Iso("2024-01-02", "09:00:00")]),
       \* non-business, earliest, no period_id
       JsonFile(<<"n", "1">>,
                [survey_metadata |-> [qid |-> Str(<<"q">>)],
                 data |-> [feedback_text |-> Str(<<"a">>)],
                 submitted_at |-> Iso("2024-01-02", "09:00:00")]),
       \* non-business, complete
       JsonFile(<<"n", "2">>,
                [survey_metadata |-> [qid |-> Str(<<"q">>)],
                 data |-> [feedback_text |-> Str(<<"\n", "b">>),
                           period_id |-> Str(<<"p">>)],
                 submitted_at |-> Iso("2024-01-05", "10:00:00")]),
       \* both qid and ru_ref, no feedback_text, same time as n2
       JsonFile(<<"n", "3">>,
                [survey_metadata |-> [qid |-> Str(<<"q">>),
                                      ru_ref |-> Str(<<"r">>),
                                      period_id |-> Str(<<"m">>)],
                 data |-> [period_id |-> Str(<<"p">>)],
                 submitted_at |-> Iso("2024-01-05", "10:00:00")]),
       \* non-business without a data section
       JsonFile(<<"n", "4">>,
                [survey_metadata |-> [qid |-> Str(<<"q">>)],
                 submitted_at |-> Iso("2024-01-02", "10:00:00")]),
       \* not JSON
       TextFile(<<"x", "1">>, <<>>),
       \* no survey_metadata
       JsonFile(<<"x", "2">>,
                [data |-> [feedback_text |-> Str(<<"a">>)],
                 submitted_at |-> Iso("2024-01-02", "09:00:00")]),
       \* survey_metadata with neither qid nor ru_ref
       JsonFile(<<"x", "3">>,
                [survey_metadata |-> [period_id |-> Str(<<"p">>)],
                 data |-> [feedback_text |-> Str(<<"a">>)],
                 submitted_at |-> Iso("2024-01-02", "09:00:00")]),
       \* no submitted_at
       JsonFile(<<"x", "4">>,
                [survey_metadata |-> [qid |-> Str(<<"q">>)],
                 data |-> [feedback_text |-> Str(<<"a">>),
                           period_id |-> Str(<<"p">>)]]),
       \* a valid business record in a file named like an aggregate
       JsonFile(<<"a", "G", "1">>,
                [survey_metadata |-> [ru_ref |-> Str(<<"r">>)],
                 data |-> [feedback_text |-> Str(<<"a">>),
                           period_id |-> Str(<<"p">>)],
                 submitted_at |-> Iso("2024-01-02", "09:00:00")]) >>

\* The configurations CONFIG.json is drawn from.
Configs ==
    { [aggregated_file_prefix |-> <<"A", "g">>,
       output_fields |->
           << OutputField(NameStr("feedback_text"), <<>>),
              OutputField(NameStr("EMPTY_COLUMN"), <<>>),
              OutputField(NameList(<<"period_id">>), <<"Unknown">>) >>],
      [aggregated_file_prefix |-> <<"A", "g">>,
       output_fields |->
           << OutputField(NameList(<<"form_type", "period_id">>), <<>>) >>],
      [aggregated_file_prefix |-> <<"A", "g">>,
       output_fields |->
           << OutputField(NameStr("EMPTY_COLUMN"), <<"Unknown">>) >>] }

\* Sequences of at most n distinct positions of the catalogue.
RECURSIVE Folders(_)
Folders(n) ==
    IF n = 0 THEN {<<>>}
    ELSE LET shorter == Folders(n - 1)
         IN  shorter \cup
             { Append(f, k) : f \in {g \in shorter : Len(g) = n - 1},
                              k \in 1..Len(Catalogue) }

Distinct(f) == \A a, b \in 1..Len(f) : a # b => f[a] # f[b]

\* ------------------------------------------------------------------- state
VARIABLES
    CONFIG,                  \* the loaded configuration
    source_folder,           \* the entries of CONFIG.source_folder, in listing order
    feedback_files,          \* glob result of this run (names)
    pos,                     \* position of the scan loop in feedback_files
    FEEDBACK_BY_SURVEY_TYPE, \* survey type -> sequence of <<filename, data>>
    pc,                      \* "scan", "check", "report", "rows", "done", "exit1", "crashed"
    typ,                     \* position of the report loop in SurveyTypes
    sorted_feedback,         \* line 199
    first_submission,        \* line 203
    output_filename,         \* line 208
    passed,                  \* line 213; False and True count as 0 and 1
    row,                     \* position of the row loop in sorted_feedback
    stdout,                  \* what was printed, as <<kind, file>> pairs
    uncaught,                \* the exception that ended the run, or ""
    parsed,                  \* history: names read_json_file was called with
    reports,                 \* history: survey type -> the report of this run
    run,                     \* 1 or 2
    first_run,               \* history: buckets and reports of run 1
    feedback,                \* argument of a single field resolution
    output_field,            \* argument of a single field resolution
    result                   \* its outcome, or "pending"

vars == <<CONFIG, source_folder, feedback_files, pos, FEEDBACK_BY_SURVEY_TYPE,
          pc, typ, sorted_feedback, first_submission, output_filename, passed,
          row, stdout, uncaught, parsed, reports, run, first_run,
          feedback, output_field, result>>

runVars == <<CONFIG, source_folder, feedback_files, pos, FEEDBACK_BY_SURVEY_TYPE,
             pc, typ, sorted_feedback, first_submission, output_filename, passed,
             row, stdout, uncaught, parsed, reports, run, first_run>>

fieldVars == <<feedback, output_field, result>>

NoReport == [status |-> "none", filename |-> <<>>, date |-> "",
             attempted |-> <<>>, rows |-> <<>>, passed |-> 0]

EmptyBuckets == [t \in {BUSINESS_SURVEY_KEY, NON_BUSINESS_SURVEY_KEY} |-> <<>>]
NoReports == [t \in {BUSINESS_SURVEY_KEY, NON_BUSINESS_SURVEY_KEY} |-> NoReport]

\* glob.glob(f"{CONFIG.source_folder}/*")
glob(folder) == [k \in 1..Len(folder) |-> folder[k].name]

Entry(name) == CHOOSE k \in 1..Len(source_folder) : source_folder[k].name = name

\* lines 25-32
read_json_file(file_path) ==
    LET e == source_folder[Entry(file_path)]
    IN  IF e.json THEN e.data ELSE None

IsAggregate_CaseSensitive(prefix, filename) == Contains(filename, prefix)

\* line 77
IsAggregate(prefix, filename) == Contains(Lower(filename), Lower(prefix))

Classify_RuRefFirst(data) ==
    IF "survey_metadata" \notin DOMAIN data THEN [raised |-> "KeyError", key |-> ""]
    ELSE IF "ru_ref" \in DOMAIN data["survey_metadata"]
         THEN [raised |-> "", key |-> BUSINESS_SURVEY_KEY]
         ELSE IF "qid" \in DOMAIN data["survey_metadata"]
              THEN [raised |-> "", key |-> NON_BUSINESS_SURVEY_KEY]
              ELSE [raised |-> "ValueError", key |-> ""]

\* lines 88-93
Classify(data) ==
    IF "survey_metadata" \notin DOMAIN data THEN [raised |-> "KeyError", key |-> ""]
    ELSE IF "qid" \in DOMAIN data["survey_metadata"]
         THEN [raised |-> "", key |-> NON_BUSINESS_SURVEY_KEY]
         ELSE IF "ru_ref" \in DOMAIN data["survey_metadata"]
              THEN [raised |-> "", key |-> BUSINESS_SURVEY_KEY]
              ELSE [raised |-> "ValueError", key |-> ""]

\* The state a fresh process starts aggregate_feedback in (lines 14-17, 178).
StartRun(folder) ==
    /\ feedback_files' = glob(folder)
    /\ pos' = 1
    /\ FEEDBACK_BY_SURVEY_TYPE' = EmptyBuckets
    /\ pc' = IF Len(folder) = 0 THEN "check" ELSE "scan"
    /\ typ' = 1
    /\ sorted_feedback' = <<>>
    /\ first_submission' = [day |-> 0, hour |-> 0]
    /\ output_filename' = <<>>
    /\ passed' = 0
    /\ row' = 1
    /\ stdout' = <<>>
    /\ uncaught' = ""
    /\ parsed' = {}
    /\ reports' = NoReports

FieldIdle ==
    /\ feedback = <<>>
    /\ output_field = OutputField(NameList(<<>>), <<>>)
    /\ result = [raised |-> "idle", value |-> None]

Init ==
    /\ CONFIG \in Configs
    /\ \E f \in {g \in Folders(MaxFiles) : Distinct(g)} :
           source_folder = [k \in 1..Len(f) |-> Catalogue[f[k]]]
    /\ feedback_files = glob(source_folder)
    /\ pos = 1
    /\ FEEDBACK_BY_SURVEY_TYPE = EmptyBuckets
    /\ pc = IF Len(source_folder) = 0 THEN "check" ELSE "scan"
    /\ typ = 1
    /\ sorted_feedback = <<>>
    /\ first_submission = [day |-> 0, hour |-> 0]
    /\ output_filename = <<>>
    /\ passed = 0
    /\ row = 1
    /\ stdout = <<>>
    /\ uncaught = ""
    /\ parsed = {}
    /\ reports = NoReports
    /\ run = 1
    /\ first_run = [buckets |-> EmptyBuckets, reports |-> NoReports, pc |-> "",
                    folder |-> <<>>]
    /\ FieldIdle

\* lines 70-99, one iteration of the loop of lines 181-184
process_feedback_file ==
    /\ pc = "scan"
    /\ pos <= Len(feedback_files)
    /\ LET feedback_file == feedback_files[pos]
           filename == feedback_file
           after == IF pos = Len(feedback_files) THEN "check" ELSE "scan"
       IN  IF IsAggregate(CONFIG.aggregated_file_prefix, filename)
           THEN /\ pos' = pos + 1
                /\ pc' = after
                /\ UNCHANGED <<FEEDBACK_BY_SURVEY_TYPE, stdout, uncaught, parsed>>
           ELSE LET data == read_json_file(feedback_file)
                IN  /\ parsed' = parsed \cup {filename}
                    /\ IF data = None
                       THEN /\ stdout' = stdout \o <<<<"json error", feedback_file>>,
                                                     <<"not valid JSON", feedback_file>>>>
                            /\ pos' = pos + 1
                            /\ pc' = after
                            /\ UNCHANGED <<FEEDBACK_BY_SURVEY_TYPE, uncaught>>
                       ELSE LET c == Classify(data)
                            IN  CASE c.raised = "" ->
                                       /\ FEEDBACK_BY_SURVEY_TYPE' =
                                            [FEEDBACK_BY_SURVEY_TYPE EXCEPT
                                               ![c.key] = Append(@, <<filename, data>>)]
                                       /\ pos' = pos + 1
                                       /\ pc' = after
                                       /\ UNCHANGED <<stdout, uncaught>>
                                  [] c.raised = "KeyError" ->
                                       /\ stdout' = Append(stdout,
                                                       <<"missing required fields", filename>>)
                                       /\ pos' = pos + 1
                                       /\ pc' = after
                                       /\ UNCHANGED <<FEEDBACK_BY_SURVEY_TYPE, uncaught>>
                                  [] OTHER ->
                                       /\ uncaught' = c.raised
                                       /\ pc' = "crashed"
                                       /\ UNCHANGED <<FEEDBACK_BY_SURVEY_TYPE, stdout, pos>>
    /\ UNCHANGED <<CONFIG, source_folder, feedback_files, typ, sorted_feedback,
                   first_submission, output_filename, passed, row, reports, run,
                   first_run, fieldVars>>

\* lines 187-192
check_feedback_found ==
    /\ pc = "check"
    /\ IF /\ FEEDBACK_BY_SURVEY_TYPE[BUSINESS_SURVEY_KEY] = <<>>
          /\ FEEDBACK_BY_SURVEY_TYPE[NON_BUSINESS_SURVEY_KEY] = <<>>
       THEN /\ stdout' = Append(stdout, <<"no valid feedback", <<>>>>)
            /\ pc' = "exit1"
       ELSE /\ pc' = "report"
            /\ UNCHANGED stdout
    /\ UNCHANGED <<CONFIG, source_folder, feedback_files, pos,
                   FEEDBACK_BY_SURVEY_TYPE, typ, sorted_feedback, first_submission,
                   output_filename, passed, row, uncaught, parsed, reports, run,
                   first_run, fieldVars>>

\* The report loop moves to the next survey type, or ends.
AfterType == IF typ = Len(SurveyTypes) THEN "done" ELSE "report"

\* lines 195-197
skip_survey_type ==
    /\ pc = "report"
    /\ FEEDBACK_BY_SURVEY_TYPE[SurveyTypes[typ]] = <<>>
    /\ stdout' = Append(stdout, <<"no data for type", SurveyTypes[typ]>>)
    /\ typ' = IF typ = Len(SurveyTypes) THEN typ ELSE typ + 1
    /\ pc' = AfterType
    /\ UNCHANGED <<CONFIG, source_folder, feedback_files, pos,
                   FEEDBACK_BY_SURVEY_TYPE, sorted_feedback, first_submission,
                   output_filename, passed, row, uncaught, parsed, reports, run,
                   first_run, fieldVars>>

\* str.title() of a survey type
Title(survey_type) ==
    IF survey_type = BUSINESS_SURVEY_KEY THEN <<"Business">>
    ELSE <<"Non", "-", "Business">>

\* lines 208-211
OutputFilename(prefix, survey_type, yyyy_mm_dd) ==
    <<"-", " ">> \o prefix \o <<"-">> \o Title(survey_type)
        \o <<"-", "Surveys", "-", yyyy_mm_dd, ".csv">>

FirstSubmission_Unsorted(feedback_data, sortedSeq) ==
    fromisoformat(feedback_data[1][2]["submitted_at"])

\* line 203: the record whose submission time names and dates the report.
FirstSubmission(feedback_data, sortedSeq) ==
    fromisoformat(sortedSeq[1][2]["submitted_at"])

\* open(path, "w"): truncate the entry, or create it somewhere in the listing.
OpenForWriting(folder, name) ==
    IF \E k \in 1..Len(folder) : folder[k].name = name
    THEN { [k \in 1..Len(folder) |->
               IF folder[k].name = name THEN TextFile(name, <<>>) ELSE folder[k]] }
    ELSE { SubSeq(folder, 1, p) \o <<TextFile(name, <<>>)>>
               \o SubSeq(folder, p + 1, Len(folder)) : p \in 0..Len(folder) }

\* lines 199-217
open_report ==
    /\ pc = "report"
    /\ FEEDBACK_BY_SURVEY_TYPE[SurveyTypes[typ]] # <<>>
    /\ LET survey_type == SurveyTypes[typ]
           feedback_data == FEEDBACK_BY_SURVEY_TYPE[survey_type]
       IN  IF \E k \in 1..Len(feedback_data) :
                  "submitted_at" \notin DOMAIN feedback_data[k][2]
           THEN /\ uncaught' = "KeyError"
                /\ pc' = "crashed"
                /\ UNCHANGED <<source_folder, sorted_feedback, first_submission,
                               output_filename, passed, row, reports>>
           ELSE LET s == sorted(feedback_data)
                    first == FirstSubmission(feedback_data, s)
                    name == OutputFilename(CONFIG.aggregated_file_prefix,
                                           survey_type, strftime_Y_m_d(first))
                IN  /\ sorted_feedback' = s
                    /\ first_submission' = first
                    /\ output_filename' = name
                    /\ passed' = 0
                    /\ row' = 1
                    /\ source_folder' \in OpenForWriting(source_folder, name)
                    /\ reports' = [reports EXCEPT ![survey_type] =
                                     [status |-> "open", filename |-> name,
                                      date |-> strftime_Y_m_d(first),
                                      attempted |-> s, rows |-> <<>>, passed |-> 0]]
                    /\ pc' = "rows"
                    /\ UNCHANGED uncaught
    /\ UNCHANGED <<CONFIG, feedback_files, pos, FEEDBACK_BY_SURVEY_TYPE, typ,
                   stdout, parsed, run, first_run, fieldVars>>

\* ",".join(values)
RECURSIVE Join(_)
Join(values) ==
    IF values = <<>> THEN <<>>
    ELSE IF Len(values) = 1 THEN Head(values)
         ELSE Head(values) \o <<",">> \o Join(Tail(values))

write_to_csv_ErrorCounted(earliest_submission_formatted, fb, filename, output_fields) ==
    LET values == [k \in 1..Len(output_fields) |->
                     get_value_for_output_field_from_feedback(fb, output_fields[k])]
    IN  [returns |-> TRUE,
         line |-> <<earliest_submission_formatted, ",">>
                    \o Join([k \in 1..Len(values) |-> values[k].value.s])
                    \o <<",">> \o filename \o <<"\n">>]

\* lines 151-168: the outcome of write_to_csv for one record.
\* line is the text handed to file.write, or <<>> when nothing is written.
write_to_csv(earliest_submission_formatted, fb, filename, output_fields) ==
    LET values == [k \in 1..Len(output_fields) |->
                     get_value_for_output_field_from_feedback(fb, output_fields[k])]
    IN  IF \E k \in 1..Len(values) : values[k].raised = "KeyError"
        THEN [returns |-> FALSE, line |-> <<>>]
        ELSE [returns |-> TRUE,
              line |-> <<earliest_submission_formatted, ",">>
                         \o Join([k \in 1..Len(values) |-> values[k].value.s])
                         \o <<",">> \o filename \o <<"\n">>]

AppendLine(folder, name, line) ==
    [k \in 1..Len(folder) |->
        IF folder[k].name = name
        THEN [folder[k] EXCEPT !.lines = Append(@, line)]
        ELSE folder[k]]

\* lines 218-224, one iteration
write_row ==
    /\ pc = "rows"
    /\ row <= Len(sorted_feedback)
    /\ LET filename == sorted_feedback[row][1]
           w == write_to_csv(strftime_b_d_Y(first_submission),
                             sorted_feedback[row][2], filename,
                             CONFIG.output_fields)
           survey_type == SurveyTypes[typ]
       IN  IF w.returns
           THEN /\ source_folder' = AppendLine(source_folder, output_filename, w.line)
                /\ passed' = passed + 1
                /\ reports' = [reports EXCEPT
                                 ![survey_type].rows = Append(@, filename),
                                 ![survey_type].passed = passed + 1]
                /\ UNCHANGED stdout
           ELSE /\ stdout' = Append(stdout, <<"row skipped", filename>>)
                /\ UNCHANGED <<source_folder, passed, reports>>
    /\ row' = row + 1
    /\ UNCHANGED <<CONFIG, feedback_files, pos, FEEDBACK_BY_SURVEY_TYPE, pc, typ,
                   sorted_feedback, first_submission, output_filename, uncaught,
                   parsed, run, first_run, fieldVars>>

\* lines 217 (close) and 227-230
close_report ==
    /\ pc = "rows"
    /\ row > Len(sorted_feedback)
    /\ stdout' = Append(stdout, <<"processed", <<passed, Len(sorted_feedback)>>>>)
    /\ reports' = [reports EXCEPT ![SurveyTypes[typ]].status = "closed"]
    /\ typ' = IF typ = Len(SurveyTypes) THEN typ ELSE typ + 1
    /\ pc' = AfterType
    /\ UNCHANGED <<CONFIG, source_folder, feedback_files, pos,
                   FEEDBACK_BY_SURVEY_TYPE, sorted_feedback, first_submission,
                   output_filename, passed, row, uncaught, parsed, run,
                   first_run, fieldVars>>

\* The tool is started again on the same folder, as a new process.
rerun ==
    /\ run = 1
    /\ pc \in {"done", "exit1", "crashed"}
    /\ run' = 2
    /\ first_run' = [buckets |-> FEEDBACK_BY_SURVEY_TYPE, reports |-> reports,
                     pc |-> pc, folder |-> source_folder]
    /\ StartRun(source_folder)
    /\ UNCHANGED <<CONFIG, source_folder, fieldVars>>

Next ==
    \/ process_feedback_file
    \/ check_feedback_found
    \/ skip_survey_type
    \/ open_report
    \/ write_row
    \/ close_report
    \/ rerun

Spec == Init /\ [][Next]_vars

\* --------------------------------------------- a single field resolution
\* The characters text values are drawn from.
Alphabet == {"a", " ", "\t", "\n", "\r", "\""}

RECURSIVE Texts(_)
Texts(n) ==
    IF n = 0 THEN {<<>>}
    ELSE LET shorter == Texts(n - 1)
         IN  shorter \cup { Append(t, c) : t \in {u \in shorter : Len(u) = n - 1},
                                           c \in Alphabet }

FieldKeys == {"feedback_text", "period_id"}

\* The dicts that hold some of FieldKeys, each as null, "" or the text mark.
Slots(mark) ==
    UNION { [ks -> {None, Str(<<>>), Str(<<mark>>)}] : ks \in SUBSET FieldKeys }

\* Records a bucket can hold: survey_metadata with qid is present; data may
\* be missing; the same key may sit in several places with or without a value.
PlacedFeedbacks ==
    { [survey_metadata |-> ("qid" :> Str(<<"q">>)) @@ m] @@ t
          : m \in Slots("m"), t \in Slots("t") }
    \cup
    { [survey_metadata |-> ("qid" :> Str(<<"q">>)) @@ m, data |-> d] @@ t
          : m \in Slots("m"), d \in Slots("d"), t \in Slots("t") }

\* Records whose feedback_text or period_id is an arbitrary text.
TextFeedbacks ==
    { [survey_metadata |-> [qid |-> Str(<<"q">>)], data |-> (k :> Str(t))]
          : k \in FieldKeys, t \in Texts(MaxLen) }

FieldNames ==
    { NameStr(n) : n \in {"feedback_text", "period_id", "qid", "EMPTY_COLUMN"} }
    \cup
    { NameList(l) : l \in { <<>>, <<"EMPTY_COLUMN">>, <<"form_type">>,
                            <<"period_id", "feedback_text">>,
                            <<"feedback_text", "period_id">>,
                            <<"period_id", "EMPTY_COLUMN">>,
                            <<"EMPTY_COLUMN", "period_id">> } }

OutputFields ==
    { OutputField(n, d) : n \in FieldNames, d \in {<<>>, <<"Unknown">>} }

RunIdle ==
    /\ CONFIG = [aggregated_file_prefix |-> <<>>, output_fields |-> <<>>]
    /\ source_folder = <<>>
    /\ feedback_files = <<>>
    /\ pos = 1
    /\ FEEDBACK_BY_SURVEY_TYPE = EmptyBuckets
    /\ pc = "idle"
    /\ typ = 1
    /\ sorted_feedback = <<>>
    /\ first_submission = [day |-> 0, hour |-> 0]
    /\ output_filename = <<>>
    /\ passed = 0
    /\ row = 1
    /\ stdout = <<>>
    /\ uncaught = ""
    /\ parsed = {}
    /\ reports = NoReports
    /\ run = 1
    /\ first_run = [buckets |-> EmptyBuckets, reports |-> NoReports, pc |-> "",
                    folder |-> <<>>]

InitField ==
    /\ RunIdle
    /\ feedback \in PlacedFeedbacks \cup TextFeedbacks
    /\ output_field \in OutputFields
    /\ result = [raised |-> "pending", value |-> None]

\* One call of get_value_for_output_field_from_feedback.
resolve ==
    /\ result.raised = "pending"
    /\ result' = get_value_for_output_field_from_feedback(feedback, output_field)
    /\ UNCHANGED <<feedback, output_field, runVars>>

NextField == resolve

SpecField == InitField /\ [][NextField]_vars

\* ===================================================== properties, SpecField
Resolved == result.raised \notin {"pending", "idle"}

HasSections(fb) == "survey_metadata" \in DOMAIN fb /\ "data" \in DOMAIN fb

Names(field) ==
    IF field.name.kind = "str" THEN <<field.name.str>> ELSE field.name.list

NoSentinel(field) == \A i \in 1..Len(Names(field)) : Names(field)[i] # "EMPTY_COLUMN"

Min(S) == CHOOSE x \in S : \A y \in S : x <= y
Max(S) == CHOOSE x \in S : \A y \in S : y <= x

\* The values held for key, in the order survey_metadata, data, top level.
Present(fb, key) ==
    (IF key \in DOMAIN fb["survey_metadata"] THEN <<fb["survey_metadata"][key]>> ELSE <<>>)
    \o (IF key \in DOMAIN fb["data"] THEN <<fb["data"][key]>> ELSE <<>>)
    \o (IF key \in DOMAIN fb THEN <<fb[key]>> ELSE <<>>)

\* The value of the first place that contains the key.
FirstPresent(fb, key) ==
    IF Present(fb, key) = <<>> THEN None ELSE Present(fb, key)[1]

\* The value of the first place that holds a truthy value for the key.
FirstTruthy(fb, key) ==
    LET truthy == SelectSeq(Present(fb, key), Truthy)
    IN  IF truthy = <<>> THEN None ELSE truthy[1]

\* CSV-safe form of a text, character by character.
RECURSIVE Escaped(_)
Escaped(chars) ==
    IF chars = <<>> THEN <<>>
    ELSE Escaped(SubSeq(chars, 1, Len(chars) - 1))
         \o (LET c == chars[Len(chars)]
             IN  IF c \in {"\n", "\r"} THEN <<" ">>
                 ELSE IF c = "\"" THEN <<"\"", "\"">>
                 ELSE <<c>>)

Trimmed(chars) ==
    LET solid == {i \in 1..Len(chars) : chars[i] \notin Whitespace}
    IN  IF solid = {} THEN <<>> ELSE SubSeq(chars, Min(solid), Max(solid))

Quoted(v) == Str(<<"\"">> \o Trimmed(Escaped(v.s)) \o <<"\"">>)

\* Every maximal run of double quotes has even length.
QuotesPaired(chars) ==
    \A i \in 1..Len(chars) :
        chars[i] = "\"" =>
            LET a == Min({j \in 1..i : \A k \in j..i : chars[k] = "\""})
                b == Max({j \in i..Len(chars) : \A k \in i..j : chars[k] = "\""})
            IN  (b - a + 1) % 2 = 0

\* Positions of the candidate names that yield a value, under a look-up rule.
Yielding(Found(_, _), fb, field) ==
    {i \in 1..Len(Names(field)) : Truthy(Found(fb, Names(field)[i]))}

\* What resolution gives when candidates yield by the look-up rule Found.
Resolution(Found(_, _), fb, field) ==
    LET yielding == Yielding(Found, fb, field)
    IN  IF yielding # {}
        THEN LET key == Names(field)[Min(yielding)]
             IN  Returned(IF key = "feedback_text" THEN Quoted(Found(fb, key))
                          ELSE Found(fb, key))
        ELSE IF field.default_value # <<>>
             THEN Returned(Str(field.default_value))
             ELSE Raised("KeyError")

\* C5: when no candidate name yields a value and default_value is the empty
\* string, the function returns the placeholder "No value provided" and
\* does not raise.
C5_EmptyDefaultGivesPlaceholder ==
    (/\ Resolved
     /\ HasSections(feedback)
     /\ NoSentinel(output_field)
     /\ Yielding(FirstPresent, feedback, output_field) = {}
     /\ output_field.default_value = <<>>)
    => result = Returned(Str(<<"No value provided">>))

\* C6 as stated: a candidate name yields a value if any of survey_metadata,
\* data and the top level holds a truthy value for it, taken from the first
\* such place; the first yielding candidate gives the result and the default
\* is used only when none yields.
C6_FirstTruthyPlaceWins ==
    (Resolved /\ HasSections(feedback) /\ NoSentinel(output_field))
    => result = Resolution(FirstTruthy, feedback, output_field)

\* C6 amended: the value of a candidate name is taken from the first of
\* survey_metadata, data and the top level that CONTAINS the name, and the
\* name yields only if that value is truthy; the first yielding candidate
\* gives the result, the default is used only when none yields, and with no
\* default either the missing-field error is raised.  A record without a
\* survey_metadata or data section raises before any name is tried.
C6_FirstPresentPlaceWins ==
    (Resolved /\ NoSentinel(output_field))
    => result = IF HasSections(feedback)
                THEN Resolution(FirstPresent, feedback, output_field)
                ELSE Raised("KeyError")

\* A falsy value in survey_metadata hides a truthy one in data, and a
\* later candidate or the default is used.
C6_Witness ==
    /\ Resolved
    /\ HasSections(feedback)
    /\ output_field.name = NameList(<<"period_id", "feedback_text">>)
    /\ "period_id" \in DOMAIN feedback["survey_metadata"]
    /\ ~Truthy(feedback["survey_metadata"]["period_id"])
    /\ "period_id" \in DOMAIN feedback["data"]
    /\ Truthy(feedback["data"]["period_id"])
    /\ "feedback_text" \notin DOMAIN feedback["survey_metadata"]
    /\ "feedback_text" \in DOMAIN feedback["data"]
    /\ result = Returned(Str(<<"\"", "d", "\"">>))

IsSentinelField(field) ==
    field.name \in {NameStr("EMPTY_COLUMN"), NameList(<<"EMPTY_COLUMN">>)}

\* C9: for a field named EMPTY_COLUMN the function returns the empty string
\* for every record a bucket can hold, whatever the record contains or lacks
\* and whatever the default is, and never raises.
C9_SentinelAlwaysEmpty ==
    (Resolved /\ IsSentinelField(output_field))
    => result = Returned(Str(<<>>))

\* C10: a value won by the key feedback_text is emitted with newlines and
\* carriage returns as spaces, double quotes doubled, trimmed and wrapped in
\* one pair of double quotes, so it holds no line break and its inner quotes
\* come in pairs; a value won by another key is emitted unchanged.
C10_FeedbackTextSanitised ==
    (/\ Resolved
     /\ HasSections(feedback)
     /\ NoSentinel(output_field)
     /\ Yielding(FirstPresent, feedback, output_field) # {})
    => LET key == Names(output_field)[Min(Yielding(FirstPresent, feedback, output_field))]
           won == FirstPresent(feedback, key)
           out == result.value.s
       IN  /\ result.raised = ""
           /\ key # "feedback_text" => result.value = won
           /\ key = "feedback_text" =>
                /\ result.value = Quoted(won)
                /\ \A i \in 1..Len(out) : out[i] \notin {"\n", "\r"}
                /\ Len(out) >= 2 /\ out[1] = "\"" /\ out[Len(out)] = "\""
                /\ QuotesPaired(SubSeq(out, 2, Len(out) - 1))

\* A feedback_text with a leading blank, a quote and a newline was emitted.
C10_Witness ==
    /\ Resolved
    /\ output_field.name = NameStr("feedback_text")
    /\ HasSections(feedback)
    /\ "feedback_text" \in DOMAIN feedback["data"]
    /\ feedback["data"]["feedback_text"] = Str(<<" ", "\"", "\n">>)
    /\ result = Returned(Str(<<"\"", "\"", "\"", "\"">>))

\* ========================================================== properties, Spec
BothTypes == {BUSINESS_SURVEY_KEY, NON_BUSINESS_SURVEY_KEY}

FileOf(name) == source_folder[Entry(name)]

\* How often a file name occurs in the bucket of a survey type.
TimesIn(t, name) ==
    Cardinality({k \in 1..Len(FEEDBACK_BY_SURVEY_TYPE[t]) :
                    FEEDBACK_BY_SURVEY_TYPE[t][k][1] = name})

HasMetadata(e) == e.json /\ "survey_metadata" \in DOMAIN e.data

HasId(e, id) == HasMetadata(e) /\ id \in DOMAIN e.data["survey_metadata"]

\* C1: every parsed record whose survey_metadata holds qid or ru_ref is in
\* exactly one bucket, non-business if it has qid and business otherwise;
\* business records have ru_ref and non-business records have qid; files
\* that are not JSON or have no survey_metadata are in neither bucket.
C1_BucketsPartitionValidRecords ==
    /\ \A k \in 1..(pos - 1) :
          LET name == feedback_files[k]
              e == FileOf(name)
              nb == TimesIn(NON_BUSINESS_SURVEY_KEY, name)
              b == TimesIn(BUSINESS_SURVEY_KEY, name)
          IN  /\ (name \in parsed /\ (HasId(e, "qid") \/ HasId(e, "ru_ref")))
                   => /\ nb + b = 1
                      /\ HasId(e, "qid") => nb = 1
                      /\ ~HasId(e, "qid") => b = 1
                      /\ \A t \in BothTypes :
                           \A j \in 1..Len(FEEDBACK_BY_SURVEY_TYPE[t]) :
                              FEEDBACK_BY_SURVEY_TYPE[t][j][1] = name
                                 => FEEDBACK_BY_SURVEY_TYPE[t][j][2] = e.data
              /\ ~HasMetadata(e) => nb + b = 0
    /\ \A j \in 1..Len(FEEDBACK_BY_SURVEY_TYPE[BUSINESS_SURVEY_KEY]) :
          "ru_ref" \in DOMAIN
              FEEDBACK_BY_SURVEY_TYPE[BUSINESS_SURVEY_KEY][j][2]["survey_metadata"]
    /\ \A j \in 1..Len(FEEDBACK_BY_SURVEY_TYPE[NON_BUSINESS_SURVEY_KEY]) :
          "qid" \in DOMAIN
              FEEDBACK_BY_SURVEY_TYPE[NON_BUSINESS_SURVEY_KEY][j][2]["survey_metadata"]

\* The scan ended with a business record and a record that has both qid and
\* ru_ref, which went to the non-business bucket.
C1_Witness ==
    /\ pc = "check"
    /\ Len(FEEDBACK_BY_SURVEY_TYPE[BUSINESS_SURVEY_KEY]) = 1
    /\ Len(FEEDBACK_BY_SURVEY_TYPE[NON_BUSINESS_SURVEY_KEY]) = 1
    /\ "ru_ref" \in DOMAIN
          FEEDBACK_BY_SURVEY_TYPE[NON_BUSINESS_SURVEY_KEY][1][2]["survey_metadata"]

\* A file the classifier or the report stage cannot use.
Defective(e) ==
    \/ ~e.json
    \/ "survey_metadata" \notin DOMAIN e.data
    \/ (/\ "qid" \notin DOMAIN e.data["survey_metadata"]
        /\ "ru_ref" \notin DOMAIN e.data["survey_metadata"])
    \/ "submitted_at" \notin DOMAIN e.data

Warned(name) == \E m \in 1..Len(stdout) : stdout[m][2] = name

\* C2: a file that is not JSON, has neither qid nor ru_ref, or lacks
\* survey_metadata or submitted_at is warned about and kept out of every
\* bucket, and the run is never aborted by it.
C2_FileDefectsRecoverable ==
    /\ uncaught = ""
    /\ \A k \in 1..(pos - 1) :
          LET name == feedback_files[k]
          IN  (name \in parsed /\ Defective(FileOf(name)))
                 => /\ Warned(name)
                    /\ \A t \in BothTypes : TimesIn(t, name) = 0

\* No configured field raises for the record.
Writable(fb) ==
    \A f \in 1..Len(CONFIG.output_fields) :
        get_value_for_output_field_from_feedback(fb, CONFIG.output_fields[f]).raised = ""

\* Some configured field has no default and no candidate that yields a value.
LacksRequired(fb) ==
    /\ HasSections(fb)
    /\ \E f \in 1..Len(CONFIG.output_fields) :
          /\ NoSentinel(CONFIG.output_fields[f])
          /\ CONFIG.output_fields[f].default_value = <<>>
          /\ Yielding(FirstPresent, fb, CONFIG.output_fields[f]) = {}

EndsWith(chars, tail) ==
    /\ Len(chars) >= Len(tail)
    /\ SubSeq(chars, Len(chars) - Len(tail) + 1, Len(chars)) = tail

\* C3: a record with a field that has no value and no default gets no line,
\* every other attempted record gets its line in sorted position, passed is
\* the number of lines of the report, and passed < total exactly when a row
\* was dropped.
C3_RowErrorsDropOneRow ==
    \A t \in BothTypes :
        LET r == reports[t]
            n == IF r.status = "open" THEN row - 1 ELSE Len(r.attempted)
            tried == SubSeq(r.attempted, 1, n)
            kept == SelectSeq(tried, LAMBDA x : Writable(x[2]))
            lines == FileOf(r.filename).lines
        IN  r.status # "none" =>
              /\ r.rows = [k \in 1..Len(kept) |-> kept[k][1]]
              /\ \A k \in 1..n : LacksRequired(tried[k][2]) =>
                    \A j \in 1..Len(r.rows) : r.rows[j] # tried[k][1]
              /\ r.passed = Len(lines)
              /\ Len(lines) = Len(r.rows)
              /\ \A k \in 1..Len(lines) : EndsWith(lines[k], r.rows[k] \o <<"\n">>)
              /\ r.status = "open" => passed = r.passed
              /\ r.status = "closed" =>
                    /\ \E m \in 1..Len(stdout) :
                          stdout[m] = <<"processed", <<r.passed, Len(r.attempted)>>>>
                    /\ r.passed < Len(r.attempted)
                          <=> \E k \in 1..Len(r.attempted) : ~Writable(r.attempted[k][2])

\* A finished report of two attempted records: the first was dropped for a
\* missing field, the second was written.
C3_Witness ==
    \E t \in BothTypes :
        /\ reports[t].status = "closed"
        /\ Len(reports[t].attempted) = 2
        /\ LacksRequired(reports[t].attempted[1][2])
        /\ reports[t].rows = <<reports[t].attempted[2][1]>>
        /\ reports[t].passed = 1

\* The date in a report's file name.
DateInName(filename) == filename[Len(filename) - 1]

When(x) == fromisoformat(x[2]["submitted_at"])

\* The positions of seq whose record no other record precedes in time.
Earliest(seq) ==
    {k \in 1..Len(seq) : \A j \in 1..Len(seq) : ~Earlier(When(seq[j]), When(seq[k]))}

\* The attempted records whose rows were written, in written order.
WrittenRecords(r) ==
    SelectSeq(r.attempted, LAMBDA x : \E j \in 1..Len(r.rows) : r.rows[j] = x[1])

\* C4 as stated: the date in the report's file name is the date of the
\* earliest submitted_at among the rows written to the report.
C4_NameDateIsEarliestWrittenRow ==
    \A t \in BothTypes :
        (reports[t].status = "closed" /\ reports[t].rows # <<>>) =>
            \E k \in Earliest(WrittenRecords(reports[t])) :
                DateInName(reports[t].filename)
                    = WrittenRecords(reports[t])[k][2]["submitted_at"].s[1]

\* C4 amended: the date in the report's file name is the date of the
\* earliest submitted_at among all records of the bucket, written or dropped.
C4_NameDateIsEarliestBucketRecord ==
    \A t \in BothTypes :
        reports[t].status # "none" =>
            /\ Len(reports[t].filename) >= 2
            /\ \E k \in Earliest(FEEDBACK_BY_SURVEY_TYPE[t]) :
                  DateInName(reports[t].filename)
                      = FEEDBACK_BY_SURVEY_TYPE[t][k][2]["submitted_at"].s[1]

\* A finished report whose earliest record was dropped while a record of a
\* later day was written.
C4_Witness ==
    \E t \in BothTypes :
        /\ reports[t].status = "closed"
        /\ Len(reports[t].attempted) = 2
        /\ reports[t].rows = <<reports[t].attempted[2][1]>>
        /\ When(reports[t].attempted[1]).day < When(reports[t].attempted[2]).day
        /\ DateInName(reports[t].filename) = "2024-01-02"

\* The bucket record a written row came from.
RecordOf(t, name) ==
    FEEDBACK_BY_SURVEY_TYPE[t][CHOOSE k \in 1..Len(FEEDBACK_BY_SURVEY_TYPE[t]) :
                                  FEEDBACK_BY_SURVEY_TYPE[t][k][1] = name]

Finished == pc \in {"done", "exit1", "crashed"}

\* C8: every report file name contains the configured prefix; no file whose
\* name contains the prefix, in any letter case, is parsed or bucketed; and a
\* second run over the folder left by the first ends as the first did, with
\* the same buckets, the same reports and the same folder content.
C8_RerunIsSafe ==
    /\ \A t \in BothTypes :
          reports[t].status # "none" =>
              Contains(reports[t].filename, CONFIG.aggregated_file_prefix)
    /\ \A name \in parsed :
          ~Contains(Lower(name), Lower(CONFIG.aggregated_file_prefix))
    /\ \A t \in BothTypes :
          \A k \in 1..Len(FEEDBACK_BY_SURVEY_TYPE[t]) :
              ~Contains(Lower(FEEDBACK_BY_SURVEY_TYPE[t][k][1]),
                        Lower(CONFIG.aggregated_file_prefix))
    /\ (run = 2 /\ Finished) =>
          /\ pc = first_run.pc
          /\ FEEDBACK_BY_SURVEY_TYPE = first_run.buckets
          /\ reports = first_run.reports
          /\ source_folder = first_run.folder

\* The second run finished after its scan met a report of the first run and
\* a feedback file named like an aggregate.
C8_Witness ==
    /\ run = 2
    /\ pc = "done"
    /\ \E t \in BothTypes :
          /\ reports[t].status = "closed"
          /\ reports[t].rows # <<>>
          /\ \E k \in 1..Len(feedback_files) : feedback_files[k] = reports[t].filename
    /\ \E k \in 1..Len(feedback_files) : feedback_files[k] = <<"a", "G", "1">>

====
